---------------------------- MODULE Spec2Model ----------------------------
(***************************************************************************)
(* A model of the Boataround scraper (src/download_fun.py): the date      *)
(* generator gen_dates, the orchestrator all_dates_scraping, the page      *)
(* walker all_pages_scraping, the retry loop of single_page_scraping, the  *)
(* fetcher down_page, the last-page test check_page and the record         *)
(* extractor process_list; and of the exporter exc_export                  *)
(* (src/excel_export.py).                                                  *)
(*                                                                         *)
(* Text is modelled as sequences of one-character strings, so that         *)
(* formatting (strftime) and parsing (strptime) are real conversions.      *)
(* A datetime is its proleptic Gregorian ordinal, as in CPython.           *)
(***************************************************************************)
EXTENDS Integers, Sequences, FiniteSets, TLC

VARIABLES
    \* gen_dates / all_dates_scraping
    start_date_str, end_date_str, end_date, current_date, saturdays,
    nth_saturday, location_data, result,
    \* all_pages_scraping
    url, date_data, last_page, page_number,
    \* single_page_scraping / down_page
    attempt, soup, exit_status,
    \* control position of the scraping run
    pc,
    \* observation of the network: the first MaxFetches requests issued, and
    \* whether any response so far was a failure or lacked an expected part
    fetched, fault, walked,
    \* the environment: the responses the site may give to a request
    site,
    \* process_list
    search_list, item_idx, page_data, length_value, px,
    \* which call of process_list on search_list this is, and how the call
    \* before it ended
    call, earlier,
    \* exc_export: its argument `data`, the data frame, the sheet written,
    \* and its control position
    export_data, boat_data_frame, sheet, ex

vars == <<start_date_str, end_date_str, end_date, current_date, saturdays,
          nth_saturday, location_data, result, url, date_data, last_page,
          page_number, attempt, soup, exit_status, pc, fetched, fault, walked,
          site, search_list, item_idx, page_data, length_value, px, call,
          earlier, export_data, boat_data_frame, sheet, ex>>

datesVars == <<start_date_str, end_date_str, end_date, current_date, saturdays>>
orchVars == <<nth_saturday, location_data, result>>
pagesVars == <<url, date_data, last_page, page_number>>
fetchVars == <<attempt, soup, exit_status, fetched, fault, walked>>
extractVars == <<search_list, item_idx, page_data, length_value, px, call,
                 earlier>>
exportVars == <<export_data, boat_data_frame, sheet, ex>>

-----------------------------------------------------------------------------
(* Bounds of the model.                                                    *)

\* gen_dates is explored for every start and end within DatesSpan days of
\* 20 April 2024 (SpecDates).
DatesSpan == 45
\* The scraping run is explored for the default start date and the end dates
\* 0 to RunWeeks weeks after it (Spec): 0 to RunWeeks Saturdays.
RunWeeks == 3
\* How many requests the observation `fetched` records.
MaxFetches == 6
\* How many listings a page handed to process_list holds at most.
MaxListings == 2
\* How many times process_list is called on the same page (SpecExtract).
MaxCalls == 2

-----------------------------------------------------------------------------
(* Optional values: None is Python's None (or an unbound local), Some(x) a *)
(* value that is there.                                                    *)

None == <<>>
Some(x) == <<x>>
IsNone(o) == o = <<>>
The(o) == o[1]

Last(s) == s[Len(s)]

-----------------------------------------------------------------------------
(* Calendar arithmetic of datetime (CPython's _ymd2ord and _ord2ymd).      *)

Years == 2023..2025

IsLeap(y) == y % 4 = 0 /\ (y % 100 # 0 \/ y % 400 = 0)

DaysInMonth(y, m) ==
    IF m = 2 THEN (IF IsLeap(y) THEN 29 ELSE 28)
    ELSE IF m \in {4, 6, 9, 11} THEN 30 ELSE 31

DaysBeforeYear(y) ==
    (y - 1) * 365 + ((y - 1) \div 4) - ((y - 1) \div 100) + ((y - 1) \div 400)

RECURSIVE DaysBeforeMonth(_, _)
DaysBeforeMonth(y, m) ==
    IF m = 1 THEN 0 ELSE DaysBeforeMonth(y, m - 1) + DaysInMonth(y, m - 1)

YmdToOrd(y, m, d) == DaysBeforeYear(y) + DaysBeforeMonth(y, m) + d

OrdToYmd(n) ==
    LET y == CHOOSE yy \in Years :
                 DaysBeforeYear(yy) < n /\ n <= DaysBeforeYear(yy + 1)
        r == n - DaysBeforeYear(y)
        m == CHOOSE mm \in 1..12 :
                 DaysBeforeMonth(y, mm) < r
                 /\ r <= DaysBeforeMonth(y, mm) + DaysInMonth(y, mm)
    IN  <<y, m, r - DaysBeforeMonth(y, m)>>

\* datetime.weekday(): Monday is 0, Saturday is 5.
Weekday(n) == (n + 6) % 7

-----------------------------------------------------------------------------
(* Text: digits, strptime('%Y-%m-%d') and strftime.                        *)

Digits == <<"0", "1", "2", "3", "4", "5", "6", "7", "8", "9">>
Digit(n) == Digits[n + 1]
DigitVal(c) == CHOOSE n \in 0..9 : Digits[n + 1] = c

Pad2(n) == <<Digit((n \div 10) % 10), Digit(n % 10)>>
Pad4(n) == <<Digit((n \div 1000) % 10), Digit((n \div 100) % 10)>> \o Pad2(n)

RECURSIVE Number(_)
Number(s) ==
    IF s = <<>> THEN 0
    ELSE 10 * Number(SubSeq(s, 1, Len(s) - 1)) + DigitVal(s[Len(s)])

\* The text form of the inputs, yyyy-mm-dd (date.isoformat()).
IsoDate(n) ==
    LET t == OrdToYmd(n)
    IN  Pad4(t[1]) \o <<"-">> \o Pad2(t[2]) \o <<"-">> \o Pad2(t[3])

\* datetime.strptime(s, '%Y-%m-%d') of a yyyy-mm-dd text.
Strptime(s) ==
    YmdToOrd(Number(SubSeq(s, 1, 4)), Number(SubSeq(s, 6, 7)),
             Number(SubSeq(s, 9, 10)))

\* line 373: current_date.strftime('%y-%m-%d'); %y is the year without its
\* century, zero-padded to two digits.
Strftime(n) ==
    LET t == OrdToYmd(n)
    IN  Pad2(t[1] % 100) \o <<"-">> \o Pad2(t[2]) \o <<"-">> \o Pad2(t[3])

-----------------------------------------------------------------------------
(* Markup handed to process_list.  A listing element (li) holds an         *)
(* optional first anchor with its href, an optional name span, an optional *)
(* price span and its div.d-flex containers in document order; a container *)
(* holds an optional parameter-name list and an optional parameter-value   *)
(* list, the value list following the name list.  A text is a sequence of  *)
(* tokens, " " and "\n" being white space.                                 *)

WhiteSpace == {" ", "\n"}

\* str.strip(), and get_text(strip=True) of a single text node
RECURSIVE Strip(_)
Strip(t) ==
    IF t = <<>> THEN t
    ELSE IF t[1] \in WhiteSpace THEN Strip(Tail(t))
    ELSE IF Last(t) \in WhiteSpace THEN Strip(SubSeq(t, 1, Len(t) - 1))
    ELSE t

\* urllib.parse.parse_qs(query): name -> list of its values in order; a
\* pair with a blank value is dropped (keep_blank_values=False).
ParseQs(query) ==
    LET kept == SelectSeq(query, LAMBDA p : p.v # "")
    IN  [k \in {kept[n].k : n \in 1..Len(kept)} |->
            LET mine == SelectSeq(kept, LAMBDA p : p.k = k)
            IN  [n \in 1..Len(mine) |-> mine[n].v]]

\* lines 231-232: query_params.get(key, [''])[0]
QueryGet(query_params, key) ==
    IF key \in DOMAIN query_params THEN query_params[key][1] ELSE ""

\* (mutant) check_out read from the check-in parameter
CheckOutFromCheckIn(query_params) == QueryGet(query_params, "checkIn")

CheckInOf(query_params) == QueryGet(query_params, "checkIn")
CheckOutOf(query_params) == QueryGet(query_params, "checkOut")

\* line 253: "Length" in text
ContainsLength(text) == \E n \in 1..Len(text) : text[n] = "Length"

\* lines 251-253, 258: the 1-based position of the first name entry holding
\* "Length", 0 when there is none (find returns None).
LengthPosition(names) ==
    IF \E n \in 1..Len(names) : ContainsLength(names[n])
    THEN CHOOSE n \in 1..Len(names) :
             /\ ContainsLength(names[n])
             /\ \A k \in 1..(n - 1) : ~ContainsLength(names[k])
    ELSE 0

\* lines 262-263: length_item.find_next('ul', class_=...params-value): the
\* first value list after the entry in document order, which is this
\* container's when it has one, else a later container's of the listing,
\* else one of a later listing of the page.
RECURSIVE FindNextValues(_, _, _)
FindNextValues(list, i, j) ==
    IF i > Len(list) THEN None
    ELSE IF j > Len(list[i].divs) THEN FindNextValues(list, i + 1, 1)
    ELSE IF ~IsNone(list[i].divs[j].values) THEN list[i].divs[j].values
    ELSE FindNextValues(list, i, j + 1)

\* lines 250-278: the loop over the containers of listing i, entered with
\* the length_value the earlier listings left (None: not yet bound).
RECURSIVE ScanContainers(_, _, _, _)
ScanContainers(list, i, j, lv) ==
    IF j > Len(list[i].divs) THEN [err |-> "", length_value |-> lv]
    ELSE
      LET div == list[i].divs[j] IN
      IF IsNone(div.names)
      THEN [err |-> "AttributeError", length_value |-> lv]        \* line 251
      ELSE
        LET pos == LengthPosition(The(div.names)) IN
        IF pos = 0 THEN ScanContainers(list, i, j + 1, lv)        \* line 256
        ELSE
          LET ul == FindNextValues(list, i, j) IN
          IF ~IsNone(ul) /\ pos <= Len(The(ul))
          THEN [err |-> "",                                       \* 269-270
                length_value |-> Some(Strip(The(ul)[pos]))]
          ELSE [err |-> "", length_value |-> lv]                  \* 271-278

\* lines 220-312: one turn of the loop of process_list, for listing i.
ProcessItem(list, i, lv) ==
    LET item == list[i] IN
    IF IsNone(item.anchor) \/ IsNone(item.name) \/ IsNone(item.price)
    THEN [err |-> "AttributeError", length_value |-> lv]   \* 225, 235, 238
    ELSE
      LET href_value == The(item.anchor)
          query_params == ParseQs(href_value.query)
          scan == ScanContainers(list, i, 1, lv)
      IN
      IF scan.err # "" THEN scan
      ELSE IF IsNone(scan.length_value)
      THEN [err |-> "UnboundLocalError", length_value |-> None]  \* line 308
      ELSE [err |-> "",
            length_value |-> scan.length_value,
            record |-> [link |-> href_value,
                        boat_name |-> Strip(The(item.name)),
                        boat_length |-> The(scan.length_value),
                        price |-> Strip(The(item.price)),
                        check_in |-> CheckInOf(query_params),
                        check_out |-> CheckOutOf(query_params)]]

\* lines 218-314: process_list as a whole; err # "" when it raises.
RECURSIVE ProcessFrom(_, _, _, _)
ProcessFrom(list, i, lv, data) ==
    IF i > Len(list) THEN [err |-> "", page_data |-> data]
    ELSE LET r == ProcessItem(list, i, lv) IN
         IF r.err # "" THEN [err |-> r.err, page_data |-> data]
         ELSE ProcessFrom(list, i + 1, r.length_value, Append(data, r.record))

ProcessList(list) == ProcessFrom(list, 1, None, <<>>)

-----------------------------------------------------------------------------
(* The markup the model explores.                                          *)

Txt(word) == <<" ", word, "\n">>
Pair(k, v) == [k |-> k, v |-> v]
Href(query) == [path |-> "/boat/bavaria-46", query |-> query]

Anchors ==
    { None,
      Some(Href(<<>>)),
      Some(Href(<<Pair("checkIn", "2024-06-01"), Pair("checkOut", "2024-06-08")>>)),
      Some(Href(<<Pair("checkIn", ""), Pair("checkOut", "2024-06-08")>>)),
      Some(Href(<<Pair("checkIn", "2024-06-01")>>)),
      Some(Href(<<Pair("checkOut", "2024-06-15"), Pair("checkIn", ""),
                  Pair("checkIn", "2024-06-08"), Pair("checkIn", "2024-06-01")>>)) }

NamesYearLength == <<<<"Year">>, <<"Length">>, <<"Cabins">>>>
NamesLengthFirst == <<<<"Length", ":">>, <<"Year">>>>
NamesNoLength == <<<<"Year">>, <<"Cabins">>>>

DLen == [names |-> Some(NamesYearLength),
         values |-> Some(<<Txt("2019"), Txt("12 m"), Txt("4")>>)]
DLenOther == [names |-> Some(NamesLengthFirst),
              values |-> Some(<<Txt("15 m"), Txt("2005")>>)]
DNoLen == [names |-> Some(NamesNoLength),
           values |-> Some(<<Txt("2019"), Txt("4")>>)]
DNoNames == [names |-> None, values |-> None]
DLenNoValues == [names |-> Some(NamesYearLength), values |-> None]
DLenShort == [names |-> Some(NamesYearLength), values |-> Some(<<Txt("2019")>>)]

ContainerLists ==
    { <<>>, <<DLen>>, <<DLenOther>>, <<DNoLen>>, <<DNoNames>>, <<DLenNoValues>>,
      <<DLenShort>>, <<DNoLen, DLen>>, <<DNoNames, DLen>>,
      <<DLenNoValues, DLenOther>>, <<DLenShort, DLenOther>> }

FullAnchor ==
    Some(Href(<<Pair("checkIn", "2024-06-01"), Pair("checkOut", "2024-06-08")>>))

Listing(a, n, p, d) == [anchor |-> a, name |-> n, price |-> p, divs |-> d]

Listings ==
    {Listing(a, Some(Txt("Bavaria 46")), Some(Txt("€1,234.00")), <<DLen>>) :
        a \in Anchors}
    \cup {Listing(FullAnchor, Some(Txt("Lagoon 42")), Some(Txt("€2,500.00")), d) :
        d \in ContainerLists}
    \cup {Listing(FullAnchor, None, Some(Txt("€1,234.00")), <<DLen>>),
          Listing(FullAnchor, Some(Txt("Bavaria 46")), None, <<DLen>>)}

SeqsUpTo(S, n) == UNION {[1..k -> S] : k \in 0..n}

\* the pages process_list is explored on (SpecExtract)
ExtractLists == SeqsUpTo(Listings, MaxListings)

GoodListing ==
    Listing(FullAnchor, Some(Txt("Bavaria 46")), Some(Txt("€1,234.00")), <<DLen>>)
OtherGoodListing ==
    Listing(FullAnchor, Some(Txt("Lagoon 42")), Some(Txt("€2,500.00")), <<DLenOther>>)

(* A response of the site: a transport error, or a page with or without    *)
(* div#search, with or without the results section, and with the           *)
(* paginator's arrows, each with its `disabled` attribute if it has one.   *)

Arrow(disabled) == [disabled |-> disabled]
ArrowsNotLast == <<Arrow(None), Arrow(None)>>
ArrowsLast == <<Arrow(None), Arrow(Some("disabled"))>>

ErrorKinds == {"SSLError", "ConnectionError", "HTTPError"}
ErrorResponse(e) ==
    [error |-> e, search |-> FALSE, section |-> None, paginator |-> None]
Page(search, section, paginator) ==
    [error |-> "", search |-> search, section |-> section,
     paginator |-> paginator]

\* the page contents the scraping run is explored on (Spec)
RunLists == { <<GoodListing, OtherGoodListing>> }
Responses ==
    {ErrorResponse(e) : e \in ErrorKinds}
    \cup {Page(FALSE, None, None), Page(TRUE, None, Some(ArrowsNotLast))}
    \cup {Page(TRUE, Some(l), Some(a)) :
             l \in RunLists, a \in {ArrowsNotLast, ArrowsLast}}

\* lines 133-136: check_page
CheckPage(page) ==
    IF IsNone(page.paginator) THEN [err |-> "AttributeError", last_page |-> FALSE]
    ELSE IF Len(The(page.paginator)) < 2
    THEN [err |-> "IndexError", last_page |-> FALSE]
    ELSE LET attr == The(page.paginator)[2].disabled
         IN [err |-> "",
             last_page |-> (IF IsNone(attr) THEN "" ELSE The(attr)) = "disabled"]

-----------------------------------------------------------------------------
(* gen_dates (lines 345-377), one turn of its loop per step.               *)

\* (mutant) the loop leaves the end date out
LoopCondExclusive(current, end) == current < end

\* line 369: while current_date <= end_date
LoopCond(current, end) == current <= end

\* lines 371-373
Collect(sats, current) ==
    IF Weekday(current) = 5 THEN Append(sats, Strftime(current)) ELSE sats

GenDatesStep ==
    /\ pc = "gen_dates"
    /\ LoopCond(current_date, end_date)
    /\ saturdays' = Collect(saturdays, current_date)
    /\ current_date' = current_date + 1
    /\ UNCHANGED <<exportVars, site, start_date_str, end_date_str, end_date, pc>>
    /\ UNCHANGED <<orchVars, pagesVars, fetchVars, extractVars>>

\* line 377, back in all_dates_scraping at line 397
GenDatesReturn ==
    /\ pc = "gen_dates"
    /\ ~LoopCond(current_date, end_date)
    /\ pc' = "for_saturday"
    /\ nth_saturday' = 0
    /\ UNCHANGED <<exportVars, site, datesVars, location_data, result>>
    /\ UNCHANGED <<pagesVars, fetchVars, extractVars>>

-----------------------------------------------------------------------------
(* all_dates_scraping (lines 381-407).                                     *)

Destination == "split-1"

\* lines 400-403; line 337 adds the page
SearchUrl(destination, check_in_date, check_out_date) ==
    [endpoint |-> "https://bt2stag.boataround.com/search",
     destinations |-> destination,
     checkIn |-> check_in_date,
     checkOut |-> check_out_date,
     page |-> None]

PageUrl(base, n) == [base EXCEPT !.page = Some(n)]

\* lines 397-405: the next window, and the call of all_pages_scraping
\* (lines 332-334)
NextWindow ==
    /\ pc = "for_saturday"
    /\ nth_saturday < Len(saturdays) - 1
    /\ url' = Some(SearchUrl(Destination, saturdays[nth_saturday + 1],
                             saturdays[nth_saturday + 2]))
    /\ walked' = Append(walked, <<saturdays[nth_saturday + 1],
                                  saturdays[nth_saturday + 2]>>)
    /\ date_data' = <<>>
    /\ last_page' = FALSE
    /\ page_number' = 1
    /\ pc' = "while_not_last"
    /\ UNCHANGED <<exportVars, site, datesVars, orchVars, extractVars>>
    /\ UNCHANGED <<attempt, soup, exit_status, fetched, fault>>

\* lines 397, 407
AllDatesReturn ==
    /\ pc = "for_saturday"
    /\ ~(nth_saturday < Len(saturdays) - 1)
    /\ result' = Some(location_data)
    /\ pc' = "returned"
    /\ UNCHANGED <<exportVars, site, datesVars, nth_saturday, location_data>>
    /\ UNCHANGED <<pagesVars, fetchVars, extractVars>>

-----------------------------------------------------------------------------
(* all_pages_scraping (lines 316-343).                                     *)

\* (mutant) the test of the loop the wrong way round
WalkerCondInverted(last) == last

\* line 336: while not last_page
WalkerCond(last) == ~last

\* line 336: the loop goes on with a call of single_page_scraping (line
\* 337), or ends: line 343 returns date_data and line 406 extends
\* location_data with it.
WhileNotLast ==
    /\ pc = "while_not_last"
    /\ IF WalkerCond(last_page)
       THEN /\ pc' = "while_true"
            /\ UNCHANGED <<orchVars>>
       ELSE /\ location_data' = location_data \o date_data
            /\ nth_saturday' = nth_saturday + 1
            /\ pc' = "for_saturday"
            /\ UNCHANGED result
    /\ UNCHANGED <<exportVars, site, datesVars, pagesVars, fetchVars, extractVars>>

\* lines 188-190 and 337-341: what follows the loop of single_page_scraping
SinglePageReturn ==
    LET found == The(The(soup).section)
        check == CheckPage(The(soup))
        data == ProcessList(found)
    IN  IF check.err # "" \/ data.err # ""
        THEN /\ pc' = "raised"
             /\ exit_status' = Some(1)
             /\ UNCHANGED <<date_data, last_page, page_number>>
        ELSE /\ last_page' = check.last_page
             /\ date_data' = date_data \o data.page_data
             /\ page_number' = page_number + 1
             /\ pc' = "while_not_last"
             /\ UNCHANGED exit_status

-----------------------------------------------------------------------------
(* single_page_scraping (lines 139-190) and down_page (lines 49-86).       *)

Retries == 5

UserAgent == "Mozilla/5.0 (Windows NT 10.0; Win64; x64) ... Safari/537.3"

\* line 77: requests.get(url, headers, timeout=99999); the second positional
\* parameter of requests.get is params.
Request(u) ==
    [url |-> u, params |-> Some(Pair("User-Agent", UserAgent)), headers |-> None]

\* the request as the network sees it, recorded while the record has room
Observe(log, response) ==
    IF Len(log) < MaxFetches
    THEN Append(log, [request |-> Request(PageUrl(The(url), page_number)),
                      response |-> response])
    ELSE log

\* line 158: while True.  The condition is constant, so the loop has no
\* exit of its own: lines 188-190 would follow it.
WhileTrue ==
    /\ pc = "while_true"
    /\ IF TRUE
       THEN /\ attempt' = 0
            /\ pc' = "for_attempt"
            /\ UNCHANGED <<pagesVars, exit_status>>
       ELSE /\ SinglePageReturn
            /\ UNCHANGED <<url, attempt>>
    /\ UNCHANGED <<exportVars, site, datesVars, orchVars, extractVars>>
    /\ UNCHANGED <<soup, fetched, fault, walked>>

\* (mutant) the handlers log the error and the retry loop goes on
RetryOnError ==
    /\ attempt' = attempt + 1
    /\ pc' = "for_attempt"
    /\ UNCHANGED exit_status

\* lines 81-86: both handlers end the process with sys.exit(1)
ExitOnError ==
    /\ exit_status' = Some(1)
    /\ pc' = "exited"
    /\ UNCHANGED attempt

\* lines 159-160, 76-86: the request fails (TLS, transport, or a status that
\* raise_for_status rejects)
DownPageFails ==
    /\ pc = "for_attempt"
    /\ attempt < Retries
    /\ \E r \in site :
          /\ r.error # ""
          /\ fetched' = Observe(fetched, r)
          /\ soup' = None
    /\ fault' = TRUE
    /\ ExitOnError
    /\ UNCHANGED <<exportVars, site, datesVars, orchVars, pagesVars, extractVars, walked>>

\* lines 159-172: the page has no div#search, so line 172 raises
\* AttributeError, which nothing catches
NoSearchDiv ==
    /\ pc = "for_attempt"
    /\ attempt < Retries
    /\ \E r \in site :
          /\ r.error = "" /\ ~r.search
          /\ fetched' = Observe(fetched, r)
          /\ soup' = Some(r)
    /\ fault' = TRUE
    /\ exit_status' = Some(1)
    /\ pc' = "raised"
    /\ UNCHANGED attempt
    /\ UNCHANGED <<exportVars, site, datesVars, orchVars, pagesVars, extractVars, walked>>

\* lines 159-184: the results section is missing; the for loop goes on
SectionMissing ==
    /\ pc = "for_attempt"
    /\ attempt < Retries
    /\ \E r \in site :
          /\ r.error = "" /\ r.search /\ IsNone(r.section)
          /\ fetched' = Observe(fetched, r)
          /\ soup' = Some(r)
    /\ fault' = TRUE
    /\ attempt' = attempt + 1
    /\ pc' = "for_attempt"
    /\ UNCHANGED exit_status
    /\ UNCHANGED <<exportVars, site, datesVars, orchVars, pagesVars, extractVars, walked>>

\* where the break of line 186 leads: out of the for loop, which is the
\* end of the body of `while True`
AfterBreak == "while_true"

\* lines 159-186: the results section is there; break
SectionFound ==
    /\ pc = "for_attempt"
    /\ attempt < Retries
    /\ \E r \in site :
          /\ r.error = "" /\ r.search /\ ~IsNone(r.section)
          /\ fetched' = Observe(fetched, r)
          /\ soup' = Some(r)
    /\ pc' = AfterBreak
    /\ UNCHANGED <<attempt, exit_status, fault>>
    /\ UNCHANGED <<exportVars, site, datesVars, orchVars, pagesVars, extractVars, walked>>

\* line 159: range(retries) is used up; the body of `while True` ends
ForExhausted ==
    /\ pc = "for_attempt"
    /\ ~(attempt < Retries)
    /\ pc' = "while_true"
    /\ UNCHANGED <<exportVars, site, datesVars, orchVars, pagesVars, fetchVars, extractVars>>

-----------------------------------------------------------------------------
(* process_list (lines 193-314), one listing per step.                     *)

ExtractItem ==
    /\ px = "loop"
    /\ item_idx <= Len(search_list)
    /\ LET r == ProcessItem(search_list, item_idx, length_value) IN
       /\ r.err = ""
       /\ page_data' = Append(page_data, r.record)
       /\ length_value' = r.length_value
    /\ item_idx' = item_idx + 1
    /\ UNCHANGED <<search_list, px, call, earlier>>
    /\ UNCHANGED <<exportVars, site, datesVars, orchVars, pagesVars, fetchVars, pc>>

ExtractRaises ==
    /\ px = "loop"
    /\ item_idx <= Len(search_list)
    /\ ProcessItem(search_list, item_idx, length_value).err # ""
    /\ px' = "raised"
    /\ UNCHANGED <<search_list, item_idx, page_data, length_value>>
    /\ UNCHANGED <<call, earlier>>
    /\ UNCHANGED <<exportVars, site, datesVars, orchVars, pagesVars, fetchVars, pc>>

\* line 314
ExtractReturn ==
    /\ px = "loop"
    /\ item_idx > Len(search_list)
    /\ px' = "returned"
    /\ UNCHANGED <<search_list, item_idx, page_data, length_value>>
    /\ UNCHANGED <<call, earlier>>
    /\ UNCHANGED <<exportVars, site, datesVars, orchVars, pagesVars, fetchVars, pc>>

\* (mutant) the list of records outlives the call, as a mutable default
\* argument would
KeptPageData(data) == data

\* line 218: page_data = []
NewPageData(data) == <<>>

\* process_list(search_list) is called again: a new frame, in which
\* length_value is unbound and line 218 binds page_data
ExtractAgain ==
    /\ px \in {"returned", "raised"}
    /\ call < MaxCalls
    /\ earlier' = Some([px |-> px, page_data |-> page_data])
    /\ call' = call + 1
    /\ page_data' = NewPageData(page_data)
    /\ length_value' = None
    /\ item_idx' = 1
    /\ px' = "loop"
    /\ UNCHANGED search_list
    /\ UNCHANGED <<exportVars, site, datesVars, orchVars, pagesVars, fetchVars, pc>>

-----------------------------------------------------------------------------
(* Specifications.                                                         *)

DefaultStart == YmdToOrd(2024, 5, 1)        \* line 382
DatesBase == YmdToOrd(2024, 4, 20)

InitState(s, e, list, p, x, u, page, w, responses) ==
    /\ start_date_str = s
    /\ end_date_str = e
    /\ end_date = Strptime(e)                \* line 358
    /\ current_date = Strptime(s)            \* lines 357, 368
    /\ saturdays = <<>>                      \* line 365
    /\ location_data = <<>>                  \* line 395
    /\ nth_saturday = 0
    /\ result = None
    /\ url = u
    /\ date_data = <<>>
    /\ last_page = FALSE
    /\ page_number = 1
    /\ attempt = 0
    /\ soup = page
    /\ exit_status = None
    /\ fetched = <<>>
    /\ fault = FALSE
    /\ walked = w
    /\ site = responses
    /\ pc = p
    /\ search_list = list
    /\ item_idx = 1
    /\ page_data = <<>>                      \* line 218
    /\ length_value = None
    /\ px = x
    /\ call = 1
    /\ earlier = None

\* exc_export is not called
NoExport ==
    /\ export_data = <<>>
    /\ boat_data_frame = None
    /\ sheet = None
    /\ ex = "idle"

\* no window chosen yet, against the site of Responses
InitWith(s, e, list, p, x) ==
    /\ InitState(s, e, list, p, x, None, None, <<>>, Responses)
    /\ NoExport

\* the scraping run: all_dates_scraping("split-1", "2024-05-01", end)
Init ==
    \E k \in 0..RunWeeks :
        InitWith(IsoDate(DefaultStart), IsoDate(DefaultStart + 7 * k), <<>>,
                 "gen_dates", "idle")

Next ==
    \/ GenDatesStep
    \/ GenDatesReturn
    \/ NextWindow
    \/ AllDatesReturn
    \/ WhileNotLast
    \/ WhileTrue
    \/ DownPageFails
    \/ NoSearchDiv
    \/ SectionMissing
    \/ SectionFound
    \/ ForExhausted

Spec == Init /\ [][Next]_vars

\* the run never pauses of its own: it is one sequential thread
FairSpec == Spec /\ WF_vars(Next)

\* gen_dates alone, over every start and end near DatesBase
InitDates ==
    \E i \in 0..DatesSpan, j \in 0..DatesSpan :
        InitWith(IsoDate(DatesBase + i), IsoDate(DatesBase + j), <<>>,
                 "gen_dates", "idle")

NextDates == GenDatesStep \/ GenDatesReturn

SpecDates == InitDates /\ [][NextDates]_vars

\* process_list alone, over every page of ExtractLists
InitExtract ==
    \E list \in ExtractLists :
        InitWith(IsoDate(DefaultStart), IsoDate(DefaultStart), list,
                 "idle", "loop")

NextExtract == ExtractItem \/ ExtractRaises \/ ExtractReturn \/ ExtractAgain

SpecExtract == InitExtract /\ [][NextExtract]_vars

-----------------------------------------------------------------------------
(* Vocabulary of the properties.                                           *)

Range(f) == {f[n] : n \in DOMAIN f}

\* 4 May 2024 is a Saturday
IsSaturday(d) == (d - YmdToOrd(2024, 5, 4)) % 7 = 0

\* the Saturdays of [start, end], as ordinals
SaturdaysWithin == {d \in Strptime(start_date_str)..Strptime(end_date_str) :
                      IsSaturday(d)}

\* the n-th of them, ascending
NthSaturday(n) ==
    CHOOSE d \in SaturdaysWithin :
        Cardinality({x \in SaturdaysWithin : x < d}) = n - 1

\* a yy-mm-dd or yyyy-mm-dd text denotes day d: month and day are d's, and the
\* year is d's, modulo 100 when it is written with two digits
Denotes(text, d) ==
    LET t == OrdToYmd(d)
        ylen == Len(text) - 6
    IN  /\ ylen \in {2, 4}
        /\ Number(SubSeq(text, 1, ylen)) = (IF ylen = 2 THEN t[1] % 100 ELSE t[1])
        /\ text[ylen + 1] = "-"
        /\ Number(SubSeq(text, ylen + 2, ylen + 3)) = t[2]
        /\ text[ylen + 4] = "-"
        /\ Number(SubSeq(text, ylen + 5, ylen + 6)) = t[3]

\* a response that is a page with div#search and the results section
HasSection(r) == r.error = "" /\ r.search /\ ~IsNone(r.section)
\* a response that is a page with div#search and no results section
LacksSection(r) == r.error = "" /\ r.search /\ IsNone(r.section)

WindowOf(e) == <<e.request.url.checkIn, e.request.url.checkOut>>
FetchesOfWindow(w) == SelectSeq(fetched, LAMBDA e : WindowOf(e) = w)
FetchesOfUrl(u) == SelectSeq(fetched, LAMBDA e : e.request.url = u)

\* the records of the pages fetched, in the order of the fetches
RECURSIVE RecordsOf(_)
RecordsOf(log) ==
    IF log = <<>> THEN <<>>
    ELSE RecordsOf(SubSeq(log, 1, Len(log) - 1))
         \o (IF HasSection(Last(log).response)
             THEN ProcessList(The(Last(log).response.section)).page_data
             ELSE <<>>)

\* the consecutive pairs of the generated Saturdays
ExpectedWindows ==
    [n \in 1..(IF Len(saturdays) > 1 THEN Len(saturdays) - 1 ELSE 0) |->
        <<saturdays[n], saturdays[n + 1]>>]

-----------------------------------------------------------------------------
(* C1: while every fetch succeeds and every page has the results section,  *)
(* the walker's fetches for a window are page 1, 2, 3, ... each once and   *)
(* in this order, and no fetch follows a page that reported the last page. *)
C1_EachPageOnce ==
    ~fault =>
        \A w \in Range(walked) :
            LET f == FetchesOfWindow(w) IN
            \A n \in 1..Len(f) :
                /\ f[n].request.url.page = Some(n)
                /\ n < Len(f) => ~CheckPage(f[n].response).last_page

(* C2: a URL whose every fetch so far lacked the results section has been  *)
(* fetched at most 5 times.                                                *)
C2_AtMostFiveFetches ==
    \A e \in Range(fetched) :
        LET f == FetchesOfUrl(e.request.url) IN
        (\A n \in 1..Len(f) : LacksSection(f[n].response)) => Len(f) <= Retries

C4_SaturdaysOfRange ==
    pc = "for_saturday" =>
        /\ Len(saturdays) = Cardinality(SaturdaysWithin)
        /\ \A n \in 1..Len(saturdays) : Denotes(saturdays[n], NthSaturday(n))
        /\ (/\ start_date_str = IsoDate(YmdToOrd(2024, 5, 1))
            /\ end_date_str = IsoDate(YmdToOrd(2024, 5, 31)))
           => /\ Len(saturdays) = 4
              /\ \A n \in 1..4 :
                    Denotes(saturdays[n], YmdToOrd(2024, 5, 7 * n - 3))

C4_Witness ==
    /\ pc = "for_saturday"
    /\ start_date_str = IsoDate(YmdToOrd(2024, 5, 4))
    /\ end_date_str = IsoDate(YmdToOrd(2024, 5, 25))
    /\ Len(saturdays) = 4

(* C5: in a run where no fetch fails and every page has its results        *)
(* section, the walker is eventually run for every consecutive pair of     *)
(* Saturdays, in ascending order, and for nothing else; with fewer than    *)
(* two Saturdays nothing is fetched and the empty sequence is returned.    *)
C5_WalksEveryWindow ==
    <>(\/ fault
       \/ /\ pc # "gen_dates"
          /\ walked = ExpectedWindows
          /\ Len(saturdays) < 2 =>
                pc = "returned" /\ fetched = <<>> /\ result = Some(<<>>))

(* C6: the checkIn and checkOut of every search URL are the window's       *)
(* Saturdays written yyyy-mm-dd, as the start and end inputs are.          *)
C6_UrlDatesFourDigitYear ==
    ~IsNone(url) =>
        /\ The(url).checkIn = IsoDate(NthSaturday(nth_saturday + 1))
        /\ The(url).checkOut = IsoDate(NthSaturday(nth_saturday + 2))

-----------------------------------------------------------------------------
\* a listing with its link, name and price, whose containers all have a
\* name list and none of them a "Length" entry
LengthMissing(item) ==
    /\ ~IsNone(item.anchor) /\ ~IsNone(item.name) /\ ~IsNone(item.price)
    /\ \A j \in 1..Len(item.divs) :
          /\ ~IsNone(item.divs[j].names)
          /\ LengthPosition(The(item.divs[j].names)) = 0

(* C7: process_list does not raise on a listing without any "Length"       *)
(* entry, and its record has link, boat_name, price, check_in, check_out   *)
(* populated and an empty boat_length.                                     *)
C7_MissingLengthTolerated ==
    /\ px = "raised" => ~LengthMissing(search_list[item_idx])
    /\ \A i \in 1..Len(page_data) :
          LengthMissing(search_list[i]) =>
              /\ page_data[i].boat_length = <<>>
              /\ page_data[i].link = The(search_list[i].anchor)
              /\ page_data[i].boat_name = Strip(The(search_list[i].name))
              /\ page_data[i].price = Strip(The(search_list[i].price))

(* C8: process_list never raises because a link, a name span, a price span *)
(* or a name list is absent, and returns one record per listing.           *)
C8_ExtractionTotal ==
    /\ px = "raised" =>
          ProcessItem(search_list, item_idx, length_value).err
              = "UnboundLocalError"
    /\ px = "returned" => Len(page_data) = Len(search_list)

\* the value of the first pair named key, "" when there is none
FirstValue(query, key) ==
    IF \E n \in 1..Len(query) : query[n].k = key
    THEN query[CHOOSE n \in 1..Len(query) :
                   /\ query[n].k = key
                   /\ \A m \in 1..(n - 1) : query[m].k # key].v
    ELSE ""

\* the first non-empty value of the pairs named key, "" when there is none
FirstNonBlank(query, key) ==
    FirstValue(SelectSeq(query, LAMBDA p : p.v # ""), key)

(* C9 (as amended): every record's link is its own listing's, its check_in *)
(* is the first non-empty value of the link's checkIn parameter and its    *)
(* check_out that of checkOut, each "" exactly when the link has no such   *)
(* parameter with a non-empty value.                                       *)
C9_DatesFromOwnLink ==
    \A i \in 1..Len(page_data) :
        LET r == page_data[i] IN
        /\ r.link = The(search_list[i].anchor)
        /\ r.check_in = FirstNonBlank(r.link.query, "checkIn")
        /\ r.check_out = FirstNonBlank(r.link.query, "checkOut")
        /\ r.check_in = "" <=>
              ~\E n \in 1..Len(r.link.query) :
                  r.link.query[n].k = "checkIn" /\ r.link.query[n].v # ""

C9_Witness ==
    /\ px = "returned"
    /\ \E i \in 1..Len(page_data) :
          /\ page_data[i].check_in = "2024-06-08"
          /\ page_data[i].check_out = "2024-06-15"
          /\ page_data[i].link.query[2] = Pair("checkIn", "")

(* C9 (as stated): check_in is the value of the link's checkIn parameter   *)
(* and check_out that of checkOut, each "" exactly when the parameter is   *)
(* absent from the link.                                                   *)
C9_AsStated ==
    \A i \in 1..Len(page_data) :
        LET r == page_data[i]
            Absent(key) == \A n \in 1..Len(r.link.query) : r.link.query[n].k # key
        IN
        /\ r.check_in = FirstValue(r.link.query, "checkIn")
        /\ r.check_out = FirstValue(r.link.query, "checkOut")
        /\ r.check_in = "" <=> Absent("checkIn")
        /\ r.check_out = "" <=> Absent("checkOut")

-----------------------------------------------------------------------------
(* C10: a fetch that fails ends the process with a non-zero status: it is  *)
(* the last request issued, and nothing is returned.                       *)
C10_FailFast ==
    /\ \A n \in 1..Len(fetched) :
          fetched[n].response.error # "" =>
              /\ n = Len(fetched)
              /\ pc = "exited"
    /\ pc = "exited" =>
          /\ ~IsNone(exit_status) /\ The(exit_status) # 0
          /\ IsNone(result)

C10_Witness ==
    /\ pc = "exited"
    /\ Len(fetched) = 3
    /\ HasSection(fetched[1].response)
    /\ fetched[3].response.error = "HTTPError"

-----------------------------------------------------------------------------
(* C11: every GET sent to the site carries the browser-like User-Agent as  *)
(* a request header, and carries it nowhere else in the request.           *)
C11_UserAgentHeader ==
    \A e \in Range(fetched) :
        /\ e.request.headers = Some(Pair("User-Agent", UserAgent))
        /\ IsNone(e.request.params)

-----------------------------------------------------------------------------
(* check_page alone (lines 123-136), over every pagination control of up   *)
(* to MaxArrows arrows.                                                    *)

\* How many arrows a pagination control holds at most.
MaxArrows == 4

\* the disabled attribute of an arrow as html.parser hands it over: not
\* there, there without a value (the parser gives ''), or disabled="disabled"
DisabledValues == {None, Some(""), Some("disabled")}

Paginators ==
    {None} \cup {Some(a) : a \in SeqsUpTo({Arrow(d) : d \in DisabledValues},
                                           MaxArrows)}

CheckPages == {Page(TRUE, Some(<<>>), p) : p \in Paginators}

\* lines 133-136
CheckPageReturns ==
    /\ pc = "check_page"
    /\ CheckPage(The(soup)).err = ""
    /\ last_page' = CheckPage(The(soup)).last_page
    /\ pc' = "checked"
    /\ UNCHANGED <<exportVars, site, datesVars, orchVars, fetchVars, extractVars>>
    /\ UNCHANGED <<url, date_data, page_number>>

\* line 133 or 134 on None, line 135 on a list too short
CheckPageRaises ==
    /\ pc = "check_page"
    /\ CheckPage(The(soup)).err # ""
    /\ pc' = "raised"
    /\ UNCHANGED <<exportVars, site, datesVars, orchVars, pagesVars, fetchVars, extractVars>>

\* check_page(id_search), the site playing no part
InitCheck ==
    \E page \in CheckPages :
        /\ InitState(IsoDate(DefaultStart), IsoDate(DefaultStart), <<>>,
                     "check_page", "idle", None, Some(page), <<>>, {})
        /\ NoExport

NextCheck == CheckPageReturns \/ CheckPageRaises

SpecCheck == InitCheck /\ [][NextCheck]_vars

\* the arrow carries the disabled attribute, whatever its value
IsDisabled(arrow) == ~IsNone(arrow.disabled)

\* a pagination control of two arrows: "previous", then "next"
HasBothArrows(page) ==
    ~IsNone(page.paginator) /\ Len(The(page.paginator)) = 2

(* C12: for a page with a pagination control, check_page reports the last  *)
(* page exactly when the "next" arrow is disabled, whatever the "previous" *)
(* arrow is and whether disabled is written with the value "disabled" or   *)
(* without a value.                                                        *)
C12_LastPageIffNextDisabled ==
    (pc # "check_page" /\ HasBothArrows(The(soup))) =>
        /\ pc = "checked"
        /\ last_page = IsDisabled(The(The(soup).paginator)[2])

-----------------------------------------------------------------------------
(* single_page_scraping alone (lines 139-190): one call, for page 1 of the *)
(* window 24-05-04 .. 24-05-11, against a site that may also answer with   *)
(* an empty results section.                                               *)

PageWindow ==
    <<Strftime(YmdToOrd(2024, 5, 4)), Strftime(YmdToOrd(2024, 5, 11))>>

\* the answers of the site: a failure, a page without div#search, a page
\* without the results section, the section with no listing in it (with and
\* without a paginator), the section with listings
PageResponses ==
    {ErrorResponse(e) : e \in ErrorKinds}
    \cup {Page(FALSE, None, None), Page(TRUE, None, Some(ArrowsNotLast))}
    \cup {Page(TRUE, Some(<<>>), Some(ArrowsLast)), Page(TRUE, Some(<<>>), None)}
    \cup {Page(TRUE, Some(l), Some(ArrowsNotLast)) : l \in RunLists}

\* line 158, on entry to single_page_scraping(url + "&page=1")
InitPage ==
    /\ InitState(IsoDate(DefaultStart), IsoDate(DefaultStart), <<>>,
                 "while_true", "idle",
                 Some(SearchUrl(Destination, PageWindow[1], PageWindow[2])),
                 None, <<PageWindow>>, PageResponses)
    /\ NoExport

NextPage ==
    \/ WhileTrue
    \/ DownPageFails
    \/ NoSearchDiv
    \/ SectionMissing
    \/ SectionFound
    \/ ForExhausted

SpecPage == InitPage /\ [][NextPage]_vars

\* a page whose results section is there and holds no listing
EmptyPage(r) == HasSection(r) /\ The(r.section) = <<>>

(* C13: a page whose results section is present and holds no listing, with *)
(* or without a paginator, is a valid outcome: its URL is not fetched      *)
(* again, nothing is raised, and the page gives no record.                 *)
C13_EmptyPageIsTerminal ==
    \A n \in 1..Len(fetched) :
        EmptyPage(fetched[n].response) =>
            /\ \A m \in (n + 1)..Len(fetched) :
                  fetched[m].request.url # fetched[n].request.url
            /\ pc # "raised"
            /\ ProcessList(The(fetched[n].response.section)) =
                  [err |-> "", page_data |-> <<>>]

(* C16: when the results section is missing on the first j-1 fetches of a  *)
(* URL (1 <= j <= 5) and present on the j-th, the URL is fetched exactly j *)
(* times: no fetch follows the one that gave the section.                  *)
C16_ExactlyJFetches ==
    \A e \in Range(fetched) :
        LET f == FetchesOfUrl(e.request.url) IN
        \A j \in 1..Len(f) :
            (/\ j <= Retries
             /\ \A k \in 1..(j - 1) : LacksSection(f[k].response)
             /\ HasSection(f[j].response))
            => Len(f) = j

-----------------------------------------------------------------------------
(* C14: while no fetch fails or lacks the results section (so that every   *)
(* fetch is one iteration of the walker), the n-th fetch of a window is    *)
(* for the window's base URL with page n: the pages start at 1 for every   *)
(* window and go up by one, none skipped and none repeated.                *)
C14_PageNumbering ==
    ~fault =>
        \A w \in Range(walked) :
            LET f == FetchesOfWindow(w) IN
            \A n \in 1..Len(f) :
                f[n].request.url =
                    PageUrl(SearchUrl(Destination, w[1], w[2]), n)

-----------------------------------------------------------------------------
(* C15: process_list called again on the same list of listings ends as the *)
(* call before it did, with the same sequence of records: nothing is kept  *)
(* from one call to the next.                                              *)
C15_SameOnRerun ==
    (call > 1 /\ px \in {"returned", "raised"}) =>
        The(earlier) = [px |-> px, page_data |-> page_data]

C15_Witness ==
    /\ call = 2
    /\ px = "returned"
    /\ search_list = <<GoodListing, OtherGoodListing>>
    /\ Len(page_data) = 2
    /\ The(earlier).page_data = page_data

-----------------------------------------------------------------------------
\* the length the containers of a listing give when the listing is the
\* only one of its page: None when no value is found
OwnLength(item) == ScanContainers(<<item>>, 1, 1, None).length_value

(* C17: a record's boat_length is settled by its own listing: it is the    *)
(* length found in that listing, and when none is found there it is not    *)
(* the boat_length of an earlier record of the page.                       *)
C17_NoLengthLeak ==
    \A i \in 1..Len(page_data) :
        IF IsNone(OwnLength(search_list[i]))
        THEN \A k \in 1..(i - 1) :
                 page_data[i].boat_length # page_data[k].boat_length
        ELSE page_data[i].boat_length = The(OwnLength(search_list[i]))

\* the first container of a listing whose name list has a "Length" entry,
\* 0 when there is none
LengthContainer(item) ==
    LET has(j) == /\ ~IsNone(item.divs[j].names)
                  /\ LengthPosition(The(item.divs[j].names)) # 0
    IN  IF \E j \in 1..Len(item.divs) : has(j)
        THEN CHOOSE j \in 1..Len(item.divs) :
                 has(j) /\ \A k \in 1..(j - 1) : ~has(k)
        ELSE 0

(* C18: when process_list sets boat_length from a container (the value     *)
(* list it looks up has an entry at the position of "Length"), the value   *)
(* is the entry of that container's own value list at the position that    *)
(* "Length" has in the container's name list.                              *)
C18_PositionPairing ==
    \A i \in 1..Len(page_data) :
        LET item == search_list[i]
            j == LengthContainer(item)
        IN
        j # 0 =>
            LET div == item.divs[j]
                pos == LengthPosition(The(div.names))
                ul == FindNextValues(search_list, i, j)
            IN
            (~IsNone(ul) /\ pos <= Len(The(ul))) =>
                /\ ~IsNone(div.values)
                /\ pos <= Len(The(div.values))
                /\ page_data[i].boat_length = Strip(The(div.values)[pos])

\* a container that yields a length value: a "Length" entry in its name
\* list and an entry at the same position of its own value list
Yields(div) ==
    /\ ~IsNone(div.names)
    /\ LengthPosition(The(div.names)) # 0
    /\ ~IsNone(div.values)
    /\ LengthPosition(The(div.names)) <= Len(The(div.values))

YieldedBy(div) == Strip(The(div.values)[LengthPosition(The(div.names))])

\* a listing with its link, name and price, whose containers all have a
\* name list and one of them yields a length value
LengthSupplied(item) ==
    /\ ~IsNone(item.anchor) /\ ~IsNone(item.name) /\ ~IsNone(item.price)
    /\ \A j \in 1..Len(item.divs) : ~IsNone(item.divs[j].names)
    /\ \E j \in 1..Len(item.divs) : Yields(item.divs[j])

(* C19: the scan of a listing's containers goes on past a container that   *)
(* has a "Length" entry and yields no value: the first container in        *)
(* document order that yields a length value supplies boat_length.         *)
C19_ScanGoesOn ==
    /\ px = "raised" => ~LengthSupplied(search_list[item_idx])
    /\ \A i \in 1..Len(page_data) :
          LET item == search_list[i] IN
          LengthSupplied(item) =>
              \E j \in 1..Len(item.divs) :
                  /\ Yields(item.divs[j])
                  /\ \A k \in 1..(j - 1) : ~Yields(item.divs[k])
                  /\ page_data[i].boat_length = YieldedBy(item.divs[j])

-----------------------------------------------------------------------------
\* the walker is through with the k-th window: the orchestrator went on to
\* a later window, or returned
WalkerDone(k) == k < Len(walked) \/ pc = "returned"

\* the last page fetched for window w reported the last page
LastPageReported(w) ==
    LET f == FetchesOfWindow(w) IN
    /\ f # <<>>
    /\ HasSection(Last(f).response)
    /\ CheckPage(Last(f).response).last_page

(* C20: the walker fetches at least one page of a window and is through    *)
(* with the window only right after a page that reported the last page;    *)
(* while the latest page of the window has not reported it, the            *)
(* orchestrator neither starts the next window nor returns.                *)
C20_StopsOnlyOnLastPage ==
    \A k \in 1..Len(walked) :
        ~LastPageReported(walked[k]) => ~WalkerDone(k)

C20_Witness ==
    /\ ~fault
    /\ Len(saturdays) = 3
    /\ Len(walked) = 1
    /\ Len(fetched) = MaxFetches
    /\ \A n \in 1..Len(fetched) :
          /\ WindowOf(fetched[n]) = walked[1]
          /\ ~CheckPage(fetched[n].response).last_page
    /\ ~WalkerDone(1)
    /\ pc = "for_attempt"

-----------------------------------------------------------------------------
(* exc_export of src/excel_export.py (lines 15-68), one statement per      *)
(* step.  A cell of the data frame is a text (str), a float, a datetime or *)
(* NaT; a float is the decimal m / 10^e with no trailing zero, so that     *)
(* float("1234.00") and float("1234") are the same value.                  *)

\* How many records the list handed to exc_export holds at most.
MaxRecords == 2

StrCell(v) == [type |-> "str", v |-> v]
FloatCell(f) == [type |-> "float", v |-> f]
DateCell(d) == [type |-> "datetime", v |-> d]
NaT == [type |-> "NaT", v |-> <<>>]

RECURSIVE Normalize(_, _)
Normalize(m, e) ==
    IF e > 0 /\ m % 10 = 0 THEN Normalize(m \div 10, e - 1)
    ELSE [m |-> m, e |-> e]

DigitSet == {Digits[n] : n \in 1..10}

\* the texts float() takes, among those explored: digits with at most one
\* point and at least one digit
IsFloatText(t) ==
    /\ \A n \in 1..Len(t) : t[n] \in DigitSet \cup {"."}
    /\ Cardinality({n \in 1..Len(t) : t[n] = "."}) <= 1
    /\ \E n \in 1..Len(t) : t[n] \in DigitSet

\* float(t)
ParseFloat(t) ==
    LET digits == SelectSeq(t, LAMBDA c : c # ".")
        p == IF \E n \in 1..Len(t) : t[n] = "."
             THEN CHOOSE n \in 1..Len(t) : t[n] = "."
             ELSE Len(t)
    IN  Normalize(Number(digits), Len(t) - p)

\* re.sub('[€,]', '', t)
RemoveChars(t, S) == SelectSeq(t, LAMBDA c : c \notin S)

\* re.sub(pat, '', t) for a literal pattern
RECURSIVE RemoveSub(_, _)
RemoveSub(t, pat) ==
    IF Len(t) < Len(pat) THEN t
    ELSE IF SubSeq(t, 1, Len(pat)) = pat
    THEN RemoveSub(SubSeq(t, Len(pat) + 1, Len(t)), pat)
    ELSE <<t[1]>> \o RemoveSub(Tail(t), pat)

\* a yyyy-mm-dd text of a day of the calendar
IsIsoDate(t) ==
    /\ Len(t) = 10
    /\ t[5] = "-" /\ t[8] = "-"
    /\ \A n \in {1, 2, 3, 4, 6, 7, 9, 10} : t[n] \in DigitSet
    /\ Number(SubSeq(t, 1, 4)) \in Years
    /\ Number(SubSeq(t, 6, 7)) \in 1..12
    /\ Number(SubSeq(t, 9, 10)) \in
          1..DaysInMonth(Number(SubSeq(t, 1, 4)), Number(SubSeq(t, 6, 7)))

\* lines 33-34: pd.to_datetime of one entry; the empty text gives NaT
ToDatetime(cell) ==
    IF cell.type # "str" THEN [err |-> "", cell |-> cell]
    ELSE IF cell.v = <<>> THEN [err |-> "", cell |-> NaT]
    ELSE IF IsIsoDate(cell.v)
    THEN [err |-> "", cell |-> DateCell(Strptime(cell.v))]
    ELSE [err |-> "ValueError", cell |-> cell]

\* Series.replace(pattern, '', regex=True) of one entry: texts are
\* rewritten, entries of a numeric column are left as they are
ReplaceEuroComma(cell) ==
    IF cell.type = "str" THEN StrCell(RemoveChars(cell.v, {"€", ","})) ELSE cell
ReplaceUnit(cell) ==
    IF cell.type = "str" THEN StrCell(RemoveSub(cell.v, <<" ", "m">>)) ELSE cell

\* Series.astype(float) of one entry
AsFloat(cell) ==
    IF cell.type = "float" THEN [err |-> "", cell |-> cell]
    ELSE IF cell.type = "str" /\ IsFloatText(cell.v)
    THEN [err |-> "", cell |-> FloatCell(ParseFloat(cell.v))]
    ELSE [err |-> "ValueError", cell |-> cell]

\* lines 39-40
PriceToFloat(cell) == AsFloat(ReplaceEuroComma(cell))
\* lines 45-46
UnitToFloat(cell) == AsFloat(ReplaceUnit(cell))

\* line 39: the column that lines 39-40 rewrite
PriceColumn == "price"
\* line 45: the column that lines 45-46 rewrite
UnitColumn == "price"

\* the keys of a record in the order process_list gives them (lines
\* 305-312 of download_fun.py), which is the order of the columns
Fields ==
    <<"link", "boat_name", "boat_length", "price", "check_in", "check_out">>

\* line 30: pd.DataFrame(data); an empty list gives a frame without columns
DataFrame(list) ==
    [columns |-> IF list = <<>> THEN <<>> ELSE Fields,
     rows |-> [i \in 1..Len(list) |->
                  [f \in Range(Fields) |-> StrCell(list[i][f])]]]

HasColumn(frame, col) == \E n \in 1..Len(frame.columns) : frame.columns[n] = col

\* the conversions of lines 33-34, 39-40 and 45-46, by name
Conv(kind, cell) ==
    IF kind = "to_datetime" THEN ToDatetime(cell)
    ELSE IF kind = "price" THEN PriceToFloat(cell)
    ELSE UnitToFloat(cell)

\* frame[col] = conversion of frame[col]: KeyError without the column, else
\* the error of the first entry that cannot be converted
Assign(frame, col, kind) ==
    IF ~HasColumn(frame, col) THEN [err |-> "KeyError", frame |-> frame]
    ELSE IF \E i \in 1..Len(frame.rows) : Conv(kind, frame.rows[i][col]).err # ""
    THEN [err |-> "ValueError", frame |-> frame]
    ELSE [err |-> "",
          frame |-> [frame EXCEPT !.rows =
                        [i \in 1..Len(frame.rows) |->
                            [frame.rows[i] EXCEPT ![col] = Conv(kind, @).cell]]]]

\* line 30
ExportFrame ==
    /\ ex = "DataFrame"
    /\ boat_data_frame' = Some(DataFrame(export_data))
    /\ ex' = "check_in"
    /\ UNCHANGED <<export_data, sheet>>
    /\ UNCHANGED <<site, datesVars, orchVars, pagesVars, fetchVars>>
    /\ UNCHANGED <<extractVars, pc>>

\* an assignment to a column that goes through
AssignStep(at, col, kind, next) ==
    /\ ex = at
    /\ Assign(The(boat_data_frame), col, kind).err = ""
    /\ boat_data_frame' = Some(Assign(The(boat_data_frame), col, kind).frame)
    /\ ex' = next
    /\ UNCHANGED <<export_data, sheet>>
    /\ UNCHANGED <<site, datesVars, orchVars, pagesVars, fetchVars>>
    /\ UNCHANGED <<extractVars, pc>>

\* line 33
ExportCheckIn == AssignStep("check_in", "check_in", "to_datetime", "check_out")
\* line 34
ExportCheckOut == AssignStep("check_out", "check_out", "to_datetime", "price")
\* lines 39-40
ExportPrice == AssignStep("price", PriceColumn, "price", "unit")
\* lines 45-46
ExportUnit == AssignStep("unit", UnitColumn, "unit", "to_excel")

\* lines 33-46: the statement raises (KeyError for a column that is not
\* there, ValueError for an entry that cannot be converted)
ExportRaises ==
    /\ ex \in {"check_in", "check_out", "price", "unit"}
    /\ LET frame == The(boat_data_frame) IN
       (IF ex = "check_in" THEN Assign(frame, "check_in", "to_datetime")
        ELSE IF ex = "check_out" THEN Assign(frame, "check_out", "to_datetime")
        ELSE IF ex = "price" THEN Assign(frame, PriceColumn, "price")
        ELSE Assign(frame, UnitColumn, "unit")).err # ""
    /\ ex' = "raised"
    /\ UNCHANGED <<export_data, boat_data_frame, sheet>>
    /\ UNCHANGED <<site, datesVars, orchVars, pagesVars, fetchVars>>
    /\ UNCHANGED <<extractVars, pc>>

\* lines 48-49: to_excel(index=False) writes the column names as the header
\* row and one row per row of the frame
ExportWrite ==
    /\ ex = "to_excel"
    /\ sheet' = Some([header |-> The(boat_data_frame).columns,
                      rows |-> The(boat_data_frame).rows])
    /\ ex' = "written"
    /\ UNCHANGED <<export_data, boat_data_frame>>
    /\ UNCHANGED <<site, datesVars, orchVars, pagesVars, fetchVars>>
    /\ UNCHANGED <<extractVars, pc>>

\* the records exc_export is explored on: a price with its sign and
\* separator, or no price text; a length with its unit; the dates of a
\* link, none, or a check-out that is no date
ExportLink == Href(<<>>)
ExportPrices ==
    { <<"€", "1", ",", "2", "3", "4", ".", "0", "0">>,
      <<"€", "9", "5", "0", ".", "5", "0">>,
      <<>> }
ExportLengths == { <<"1", "2", " ", "m">>, <<"1", "5", ".", "5", " ", "m">> }
ExportStays ==
    { <<IsoDate(YmdToOrd(2024, 6, 1)), IsoDate(YmdToOrd(2024, 6, 8))>>,
      <<<<>>, <<>>>>,
      <<IsoDate(YmdToOrd(2024, 6, 1)), <<"n", "/", "a">>>> }
ExportRecords ==
    { [link |-> ExportLink, boat_name |-> <<"Bavaria 46">>, boat_length |-> l,
       price |-> p, check_in |-> s[1], check_out |-> s[2]] :
         l \in ExportLengths, p \in ExportPrices, s \in ExportStays }

\* exc_export(data) alone, over every list of up to MaxRecords records
InitExport ==
    /\ InitState(IsoDate(DefaultStart), IsoDate(DefaultStart), <<>>,
                 "idle", "idle", None, None, <<>>, {})
    /\ export_data \in SeqsUpTo(ExportRecords, MaxRecords)
    /\ boat_data_frame = None
    /\ sheet = None
    /\ ex = "DataFrame"

NextExport ==
    \/ ExportFrame
    \/ ExportCheckIn
    \/ ExportCheckOut
    \/ ExportPrice
    \/ ExportUnit
    \/ ExportRaises
    \/ ExportWrite

SpecExport == InitExport /\ [][NextExport]_vars

(* C21: exc_export writes a header row of the record field names and one   *)
(* row per record in input order, where the price cell is the number left  *)
(* when the currency sign and the thousands separators are taken off the   *)
(* record's price, and the boat_length cell the number left when " m" is   *)
(* taken off its boat_length.                                              *)
C21_DecorationStripped ==
    ex = "written" =>
        /\ The(sheet).header = Fields
        /\ Len(The(sheet).rows) = Len(export_data)
        /\ \A i \in 1..Len(export_data) :
              LET row == The(sheet).rows[i]
                  rec == export_data[i]
              IN
              /\ row.price =
                    FloatCell(ParseFloat(RemoveChars(rec.price, {"€", ","})))
              /\ row.boat_length =
                    FloatCell(ParseFloat(RemoveSub(rec.boat_length, <<" ", "m">>)))

=============================================================================
